---- MODULE Spec2Model ----
\* A model of package hdgraph (src/hdgraph.go): a directed graph kept as two
\* Go maps, out and in, and StrongComponents, a two-pass depth first search
\* (Kosaraju) whose visited markers live in a slice sized len(g.out).
EXTENDS Integers, Sequences, FiniteSets, TLC

\* Node identities are 0..MaxNode; at most MaxOps mutating calls are made.
MaxNode == 2
MaxOps == 3

Nodes == 0..MaxNode

VARIABLES
    out,        \* g.out: node -> set of successors (a Go map of maps)
    in,         \* g.in: node -> set of predecessors
    edges,      \* history: the edges linked and not since unlinked or removed
    removed,    \* history: the nodes removed and not since re-created
    ops,        \* number of mutating calls made so far
    pc,         \* "idle" | "pass1" | "pass2" | "panicked"
    flip,       \* d.flip: the marker slice, a function on 0..len-1
    order,      \* d.order
    finish,     \* the local order of StrongComponents (line 83)
    roots,      \* keys of g.out the range loop of line 77 has yet to yield
    idx,        \* the loop variable i of line 89, shifted by one (1-based)
    stack,      \* the dfs1/dfs2 call stack: frames [node, todo]
    components, \* the local components
    results     \* what the calls made since the last mutation returned

vars == <<out, in, edges, removed, ops, pc, flip, order, finish, roots, idx, stack,
          components, results>>

graphVars == <<out, in, edges, removed, ops>>
callVars == <<flip, order, finish, roots, idx, stack, components>>

------------------------------------------------------------------------------
\* Go maps as functions with a finite domain.

EmptyMap == [k \in {} |-> {}]

MapPut(m, k, v) == [x \in (DOMAIN m) \cup {k} |-> IF x = k THEN v ELSE m[x]]

MapDelete(m, k) == [x \in (DOMAIN m) \ {k} |-> m[x]]

\* Reading a missing key yields the nil inner map: no neighbours.
MapGet(m, k) == IF k \in DOMAIN m THEN m[k] ELSE {}

\* delete(m[k], v): a no-op on the nil map of a missing key.
InnerDelete(m, k, v) == IF k \in DOMAIN m THEN [m EXCEPT ![k] = @ \ {v}] ELSE m

\* m[k][v] = struct{}{}
InnerPut(m, k, v) == [m EXCEPT ![k] = @ \cup {v}]

------------------------------------------------------------------------------
\* The graph operations, as functions of the graph g = [out, in].

New == [out |-> EmptyMap, in |-> EmptyMap]

\* A slip: the existence test of line 32 left out.
Add_Reset(g, node) ==
    [out |-> MapPut(g.out, node, {}), in |-> MapPut(g.in, node, {})]

Add(g, node) ==
    IF node \notin DOMAIN g.out
    THEN [out |-> MapPut(g.out, node, {}), in |-> MapPut(g.in, node, {})]
    ELSE g

\* The loop of lines 41-43: node leaves in[dst] for every dst in out[node].
RemoveScrub(g, node) ==
    [dst \in DOMAIN g.in |->
        IF dst \in MapGet(g.out, node) THEN g.in[dst] \ {node} ELSE g.in[dst]]

Remove(g, node) ==
    [out |-> MapDelete(g.out, node), in |-> RemoveScrub(g, node)]

Link(g, src, dst) ==
    LET g2 == Add(Add(g, src), dst)
    IN  [out |-> InnerPut(g2.out, src, dst), in |-> InnerPut(g2.in, dst, src)]

Unlink(g, src, dst) ==
    [out |-> InnerDelete(g.out, src, dst), in |-> InnerDelete(g.in, dst, src)]

G == [out |-> out, in |-> in]

------------------------------------------------------------------------------
Init ==
    /\ out = New.out
    /\ in = New.in
    /\ edges = {}
    /\ removed = {}
    /\ ops = 0
    /\ pc = "idle"
    /\ flip = <<>>
    /\ order = <<>>
    /\ finish = <<>>
    /\ roots = {}
    /\ idx = 0
    /\ stack = <<>>
    /\ components = <<>>
    /\ results = <<>>

\* A mutating call: made between StrongComponents calls, by the one caller.
Mutate(g) ==
    /\ pc = "idle"
    /\ ops < MaxOps
    /\ ops' = ops + 1
    /\ out' = g.out
    /\ in' = g.in
    /\ results' = <<>>
    /\ UNCHANGED <<pc, callVars>>

AddCall(node) ==
    /\ Mutate(Add(G, node))
    /\ edges' = edges
    /\ removed' = removed \ {node}

RemoveCall(node) ==
    /\ Mutate(Remove(G, node))
    /\ edges' = {e \in edges : e[1] # node /\ e[2] # node}
    /\ removed' = removed \cup {node}

LinkCall(src, dst) ==
    /\ Mutate(Link(G, src, dst))
    /\ edges' = edges \cup {<<src, dst>>}
    /\ removed' = removed \ {src, dst}

UnlinkCall(src, dst) ==
    /\ Mutate(Unlink(G, src, dst))
    /\ edges' = edges \ {<<src, dst>>}
    /\ removed' = removed

------------------------------------------------------------------------------
\* StrongComponents, one action per step of its loops and of the recursion.

\* make([]bool, n): indices 0..n-1, all false.
MakeFlip(n) == [k \in 0..(n - 1) |-> FALSE]

\* d.flip[node] panics (index out of range) unless 0 <= node < len(d.flip).
InRange(node) == node \in DOMAIN flip

\* sawTrue and sawFalse: the value returned, r, and d.flip after the call.
sawTrue(node) == [r |-> flip[node], flip |-> [flip EXCEPT ![node] = TRUE]]

\* A slip: sawFalse reads the marker and does not clear it.
sawFalse_NoClear(node) == [r |-> ~flip[node], flip |-> flip]

sawFalse(node) == [r |-> ~flip[node], flip |-> [flip EXCEPT ![node] = FALSE]]

\* d.graph in pass 1 (line 72) and in pass 2 (line 86).
\* A slip: pass 1 searches the reverse graph.
Graph1_Reverse == in

Graph1 == out

\* A slip: pass 2 searches the forward graph again.
Graph2_Forward == out

Graph2 == in

\* A new activation of dfs1/dfs2 on node: its range loop has all of
\* d.graph[node] to yield.
Frame(graph, node) == [node |-> node, todo |-> MapGet(graph, node)]

Push(f) == Append(stack, f)
Pop == SubSeq(stack, 1, Len(stack) - 1)
Top == stack[Len(stack)]
SetTopTodo(todo) == [stack EXCEPT ![Len(stack)].todo = todo]

\* The runtime panic of an out-of-range index: the call never returns.
Panic ==
    /\ pc' = "panicked"
    /\ UNCHANGED <<graphVars, callVars, results>>

\* Lines 71-75.
SCStart ==
    /\ pc = "idle"
    /\ Len(results) < 2
    /\ pc' = "pass1"
    /\ flip' = MakeFlip(Cardinality(DOMAIN out))
    /\ order' = <<>>
    /\ finish' = <<>>
    /\ roots' = DOMAIN out
    /\ idx' = 0
    /\ stack' = <<>>
    /\ components' = <<>>
    /\ UNCHANGED <<graphVars, results>>

\* Lines 77-81: the range loop yields a key of g.out, in any order.
Pass1Root ==
    /\ pc = "pass1"
    /\ stack = <<>>
    /\ \E node \in roots :
        IF ~InRange(node) THEN Panic
        ELSE /\ roots' = roots \ {node}
             /\ flip' = sawTrue(node).flip
             /\ stack' = IF ~sawTrue(node).r
                         THEN Push(Frame(Graph1, node))
                         ELSE stack
             /\ UNCHANGED <<graphVars, pc, order, finish, idx, components, results>>

\* Lines 129-133: the range loop of the running dfs1 yields a neighbour.
Dfs1Neighbor ==
    /\ pc = "pass1"
    /\ stack # <<>>
    /\ \E neighbor \in Top.todo :
        IF ~InRange(neighbor) THEN Panic
        ELSE /\ flip' = sawTrue(neighbor).flip
             /\ stack' = IF ~sawTrue(neighbor).r
                         THEN Append(SetTopTodo(Top.todo \ {neighbor}),
                                     Frame(Graph1, neighbor))
                         ELSE SetTopTodo(Top.todo \ {neighbor})
             /\ UNCHANGED <<graphVars, pc, order, finish, roots, idx, components,
                            results>>

\* Line 134: the loop is over; dfs1 appends its node and returns.
Dfs1Return ==
    /\ pc = "pass1"
    /\ stack # <<>>
    /\ Top.todo = {}
    /\ order' = Append(order, Top.node)
    /\ stack' = Pop
    /\ UNCHANGED <<graphVars, pc, flip, finish, roots, idx, components, results>>

\* A slip: line 86 assigns g.in to g.out instead of d.graph.
Pass1Done_WritesOut ==
    /\ pc = "pass1"
    /\ stack = <<>>
    /\ roots = {}
    /\ pc' = "pass2"
    /\ finish' = order
    /\ order' = <<>>
    /\ idx' = Len(order)
    /\ out' = in
    /\ UNCHANGED <<in, edges, removed, ops, flip, roots, stack, components,
                   results>>

\* Lines 83-88.
Pass1Done ==
    /\ pc = "pass1"
    /\ stack = <<>>
    /\ roots = {}
    /\ pc' = "pass2"
    /\ finish' = order
    /\ order' = <<>>
    /\ idx' = Len(order)
    /\ UNCHANGED <<graphVars, flip, roots, stack, components, results>>

\* Lines 89-91: the next node of the finish order, last first. The index is
\* in range: the node went through sawTrue in pass 1.
Pass2Root ==
    /\ pc = "pass2"
    /\ stack = <<>>
    /\ idx >= 1
    /\ LET node == finish[idx]
       IN  /\ idx' = idx - 1
           /\ flip' = sawFalse(node).flip
           /\ stack' = IF ~sawFalse(node).r
                       THEN Push(Frame(Graph2, node))
                       ELSE stack
    /\ UNCHANGED <<graphVars, pc, order, finish, roots, components, results>>

\* Lines 138-142.
Dfs2Neighbor ==
    /\ pc = "pass2"
    /\ stack # <<>>
    /\ \E neighbor \in Top.todo :
        IF ~InRange(neighbor) THEN Panic
        ELSE /\ flip' = sawFalse(neighbor).flip
             /\ stack' = IF ~sawFalse(neighbor).r
                         THEN Append(SetTopTodo(Top.todo \ {neighbor}),
                                     Frame(Graph2, neighbor))
                         ELSE SetTopTodo(Top.todo \ {neighbor})
             /\ UNCHANGED <<graphVars, pc, order, finish, roots, idx, components,
                            results>>

\* A slip: line 95 left out, so d.order keeps the earlier components.
Dfs2Return_KeepOrder ==
    /\ pc = "pass2"
    /\ stack # <<>>
    /\ Top.todo = {}
    /\ stack' = Pop
    /\ order' = Append(order, Top.node)
    /\ components' = IF Len(stack) = 1
                     THEN Append(components, Append(order, Top.node))
                     ELSE components
    /\ UNCHANGED <<graphVars, pc, flip, finish, roots, idx, results>>

\* Line 143, and lines 92-95 when the dfs2 that returns is the one line 91
\* called: all of d.order becomes the next component, d.order the empty rest.
Dfs2Return ==
    /\ pc = "pass2"
    /\ stack # <<>>
    /\ Top.todo = {}
    /\ stack' = Pop
    /\ IF Len(stack) = 1
       THEN /\ components' = Append(components, Append(order, Top.node))
            /\ order' = <<>>
       ELSE /\ order' = Append(order, Top.node)
            /\ components' = components
    /\ UNCHANGED <<graphVars, pc, flip, finish, roots, idx, results>>

\* Line 99. The dfser d and the locals die with the call.
SCReturn ==
    /\ pc = "pass2"
    /\ stack = <<>>
    /\ idx = 0
    /\ pc' = "idle"
    /\ results' = Append(results, components)
    /\ flip' = <<>>
    /\ order' = <<>>
    /\ finish' = <<>>
    /\ components' = <<>>
    /\ UNCHANGED <<graphVars, roots, idx, stack>>

Next ==
    \/ \E node \in Nodes : AddCall(node)
    \/ \E node \in Nodes : RemoveCall(node)
    \/ \E src, dst \in Nodes : LinkCall(src, dst)
    \/ \E src, dst \in Nodes : UnlinkCall(src, dst)
    \/ SCStart
    \/ Pass1Root
    \/ Dfs1Neighbor
    \/ Dfs1Return
    \/ Pass1Done
    \/ Pass2Root
    \/ Dfs2Neighbor
    \/ Dfs2Return
    \/ SCReturn

Spec == Init /\ [][Next]_vars

\* A step of a StrongComponents call that has started. The call is ordinary
\* sequential code: once entered it keeps running until it returns or panics.
CallStep ==
    \/ Pass1Root
    \/ Dfs1Neighbor
    \/ Dfs1Return
    \/ Pass1Done
    \/ Pass2Root
    \/ Dfs2Neighbor
    \/ Dfs2Return
    \/ SCReturn

FairSpec == Spec /\ WF_vars(CallStep)
------------------------------------------------------------------------------
\* Vocabulary of the properties.

\* A node is present iff it has an entry in both out and in.
Present == (DOMAIN out) \cap (DOMAIN in)

SeqRange(s) == {s[k] : k \in 1..Len(s)}

\* A call has returned and the graph has not been mutated since.
Returned == pc = "idle" /\ results # <<>>

LastResult == results[Len(results)]

\* The components of a result, each as a set of nodes.
CompSets(res) == {SeqRange(res[k]) : k \in 1..Len(res)}

\* How often node n occurs in the components of a result.
RECURSIVE Count(_, _)
Count(s, n) ==
    IF s = <<>> THEN 0 ELSE (IF Head(s) = n THEN 1 ELSE 0) + Count(Tail(s), n)

RECURSIVE Flatten(_)
Flatten(res) == IF res = <<>> THEN <<>> ELSE Head(res) \o Flatten(Tail(res))

\* Pairs <<u, v>> joined by a directed path of E, of any length from 0.
RECURSIVE Paths(_, _, _)
Paths(E, R, n) ==
    LET R2 == R \cup {p \in Nodes \X Nodes :
                        \E b \in Nodes : <<p[1], b>> \in R /\ <<b, p[2]>> \in E}
    IN  IF n = 0 \/ R2 = R THEN R ELSE Paths(E, R2, n - 1)

Reach(E) == Paths(E, {<<n, n>> : n \in Nodes} \cup E, Cardinality(Nodes))

SameComponent(res, u, v) ==
    \E k \in 1..Len(res) : u \in SeqRange(res[k]) /\ v \in SeqRange(res[k])

\* The graphs of the examples.
Chain(a, b, c) == Link(Link(New, a, b), b, c)
SelfLoop(a) == Link(New, a, a)
RemovalExample(a, b, c) == Remove(Link(Link(Link(New, a, b), b, a), b, c), b)

------------------------------------------------------------------------------
\* C1: every returned result puts two present nodes in the same component
\* iff each reaches the other by a directed path of the graph's edges (those
\* linked and not since unlinked or removed with an endpoint); a graph
\* without cycles has only singleton components.
C1_MutualReachability ==
    Returned =>
        /\ \A u, v \in Present :
            SameComponent(LastResult, u, v)
                <=> (<<u, v>> \in Reach(edges) /\ <<v, u>> \in Reach(edges))
        /\ (\A u, v \in Nodes :
                u # v => ~(<<u, v>> \in Reach(edges) /\ <<v, u>> \in Reach(edges)))
               /\ (\A n \in Nodes : <<n, n>> \notin edges)
            => \A k \in 1..Len(LastResult) : Len(LastResult[k]) = 1

\* C2 as stated: for every edge u->v between two components, the component
\* of v comes earlier in the result than the component of u; the chain
\* a->b->c returns [[c],[b],[a]].
C2_DependedUponFirst ==
    Returned =>
        /\ \A e \in edges :
            \A k1, k2 \in 1..Len(LastResult) :
                (e[1] \in SeqRange(LastResult[k1])
                    /\ e[2] \in SeqRange(LastResult[k2]) /\ k1 # k2) => k2 < k1
        /\ \A a, b, c \in Nodes :
            (Cardinality({a, b, c}) = 3 /\ G = Chain(a, b, c))
                => LastResult = <<<<c>>, <<b>>, <<a>>>>

\* C2 as amended: for every edge u->v both endpoints are in the result and
\* the component of u is the component of v or comes earlier than it; the
\* chain a->b->c returns [[a],[b],[c]].
C2_DependentsFirst ==
    Returned =>
        /\ \A e \in edges :
            /\ \E k1, k2 \in 1..Len(LastResult) :
                e[1] \in SeqRange(LastResult[k1]) /\ e[2] \in SeqRange(LastResult[k2])
            /\ \A k1, k2 \in 1..Len(LastResult) :
                (e[1] \in SeqRange(LastResult[k1])
                    /\ e[2] \in SeqRange(LastResult[k2])) => k1 <= k2
        /\ \A a, b, c \in Nodes :
            (Cardinality({a, b, c}) = 3 /\ G = Chain(a, b, c))
                => LastResult = <<<<a>>, <<b>>, <<c>>>>

\* C2 witness: the chain 0->1->2 has returned three singleton components.
C2_Witness ==
    /\ Returned
    /\ G = Chain(0, 1, 2)
    /\ edges = {<<0, 1>>, <<1, 2>>}
    /\ Len(LastResult) = 3

\* C3: every returned result holds each present node exactly once and no
\* node twice.
C3_EachNodeOnce ==
    Returned =>
        /\ \A n \in Present : Count(Flatten(LastResult), n) = 1
        /\ \A n \in Nodes : Count(Flatten(LastResult), n) <= 1

\* C3 witness: a result for three present nodes, two of them in one
\* component.
C3_Witness ==
    /\ Returned
    /\ Cardinality(Present) = 3
    /\ \E k \in 1..Len(LastResult) : Len(LastResult[k]) = 2

\* C4: StrongComponents never fails, whatever the node identities; the empty
\* graph returns the empty sequence and the lone self-loop 1->1 returns [[1]].
C4_NeverFails ==
    /\ pc # "panicked"
    /\ (Returned /\ G = New) => LastResult = <<>>
    /\ (Returned /\ G = SelfLoop(1)) => LastResult = <<<<1>>>>

\* C5: dst is in out[src] iff src is in in[dst], for every pair.
C5_Mirror ==
    \A src, dst \in Nodes : dst \in MapGet(out, src) <=> src \in MapGet(in, dst)

\* C6: a node removed and not created again is in no component of a later
\* result; after Link(a,b); Link(b,a); Link(b,c); Remove(b) the call returns
\* exactly the two singleton components of a and c.
C6_RemovedNeverInResult ==
    /\ Returned => \A n \in removed : n \notin SeqRange(Flatten(LastResult))
    /\ \A a, b, c \in Nodes :
        (Cardinality({a, b, c}) = 3 /\ G = RemovalExample(a, b, c)
                /\ removed = {b})
            => /\ pc # "panicked"
               /\ Returned =>
                    /\ Len(LastResult) = 2
                    /\ CompSets(LastResult) = {{a}, {c}}

\* C7: a node has an entry in out iff it has an entry in in.
C7_SameKeys == DOMAIN out = DOMAIN in

\* C8: two calls with no mutation in between return the same set of
\* components, each component taken as a set of nodes.
C8_Deterministic ==
    (pc = "idle" /\ Len(results) = 2)
        => CompSets(results[1]) = CompSets(results[2])

\* C9: Unlink(src, dst) leaves out and in unchanged when src is absent, dst
\* is absent or dst is not in out[src]; otherwise only dst leaves out[src]
\* and src leaves in[dst], and the present nodes stay the same.
C9_UnlinkFrame ==
    [][\A src, dst \in Nodes :
        UnlinkCall(src, dst) =>
            IF src \notin Present \/ dst \notin Present
                \/ dst \notin MapGet(out, src)
            THEN out' = out /\ in' = in
            ELSE /\ out' = [out EXCEPT ![src] = @ \ {dst}]
                 /\ in' = [in EXCEPT ![dst] = @ \ {src}]
                 /\ (DOMAIN out') \cap (DOMAIN in') = Present]_vars

\* C10: Link(src, dst) makes src and dst present, puts dst in out[src] and
\* src in in[dst], changes no other neighbour set (a set that did not exist
\* counts as empty), and a second Link(src, dst) changes nothing.
C10_LinkFrame ==
    [][\A src, dst \in Nodes :
        LinkCall(src, dst) =>
            /\ {src, dst} \subseteq (DOMAIN out') \cap (DOMAIN in')
            /\ DOMAIN out' = (DOMAIN out) \cup {src, dst}
            /\ DOMAIN in' = (DOMAIN in) \cup {src, dst}
            /\ \A k \in Nodes :
                /\ MapGet(out', k)
                     = MapGet(out, k) \cup (IF k = src THEN {dst} ELSE {})
                /\ MapGet(in', k)
                     = MapGet(in, k) \cup (IF k = dst THEN {src} ELSE {})
            /\ Link([out |-> out', in |-> in'], src, dst)
                 = [out |-> out', in |-> in']]_vars

\* C11: Add(n) on a present node leaves out and in unchanged; on an absent
\* node it gives n the empty set in out and in in and changes no other entry.
C11_AddFrame ==
    [][\A n \in Nodes :
        AddCall(n) =>
            IF n \in Present
            THEN out' = out /\ in' = in
            ELSE /\ out' = MapPut(out, n, {})
                 /\ in' = MapPut(in, n, {})
                 /\ \A k \in (DOMAIN out) \ {n} : out'[k] = out[k]
                 /\ \A k \in (DOMAIN in) \ {n} : in'[k] = in[k]
                 /\ DOMAIN out' = (DOMAIN out) \cup {n}
                 /\ DOMAIN in' = (DOMAIN in) \cup {n}]_vars

\* C11 witness: Link(p,n); Remove(n); Add(n) has run: n is present again
\* with both sets empty while out[p] still names it.
C11_Witness ==
    /\ ops = 3
    /\ \E p, n \in Nodes :
        /\ p # n
        /\ n \in Present
        /\ out[n] = {} /\ in[n] = {}
        /\ n \in MapGet(out, p)

\* The graph of Link(a,b); Link(b,a); Unlink(b,a) on the empty graph.
UnlinkExample(a, b) == Unlink(Link(Link(New, a, b), b, a), b, a)

\* C12: after Link(a,b); Link(b,a); Unlink(b,a) on the empty graph, for
\* distinct a and b, StrongComponents returns exactly [[a],[b]].
C12_UnlinkBreaksCycle ==
    \A a, b \in Nodes :
        (a # b /\ G = UnlinkExample(a, b) /\ edges = {<<a, b>>} /\ removed = {})
            => /\ pc # "panicked"
               /\ Returned => LastResult = <<<<a>>, <<b>>>>

\* The edges of the out adjacency, as pass 1 reads it.
OutEdges == {p \in Nodes \X Nodes : p[1] \in DOMAIN out /\ p[2] \in out[p[1]]}

\* No edge of E lies on a cycle (a self-loop is a cycle).
Acyclic(E) == LET R == Reach(E) IN \A e \in E : <<e[2], e[1]>> \notin R

\* The place of node n in the sequence s.
Pos(s, n) == CHOOSE k \in 1..Len(s) : s[k] = n

\* Pass 1 has just ended (line 83): no step of pass 2 has run yet. Pass 2
\* changes neither finish nor out.
Pass1Ended == pc = "pass2" /\ idx = Len(finish) /\ stack = <<>>

\* C13: when pass 1 has ended, the finish sequence holds every present node
\* exactly once, and if the out adjacency is acyclic every edge u->v of it
\* has v appended before u.
C13_FinishOrder ==
    Pass1Ended =>
        /\ \A n \in Present : Count(finish, n) = 1
        /\ \/ \A e \in OutEdges :
                /\ {e[1], e[2]} \subseteq SeqRange(finish)
                /\ Pos(finish, e[2]) < Pos(finish, e[1])
           \/ ~Acyclic(OutEdges)

\* C13 witness: pass 1 has ended on an acyclic graph of three nodes and at
\* least two edges.
C13_Witness ==
    /\ Pass1Ended
    /\ Acyclic(OutEdges)
    /\ Cardinality(OutEdges) >= 2
    /\ Len(finish) = 3

\* The nodes dfs1/dfs2 has been entered for in the running pass: those of the
\* activations on the stack, then those already appended.
Entered ==
    [k \in 1..Len(stack) |-> stack[k].node] \o Flatten(components) \o order

\* C14, in every state: no node is entered twice in one pass.
C14_EnteredOnce ==
    pc \in {"pass1", "pass2"} => \A n \in Nodes : Count(Entered, n) <= 1

\* C14, in every step: in pass 1 a marker only goes false -> true and
\* does so exactly when dfs1 is entered; in pass 2 it only goes true -> false
\* and does so exactly when dfs2 is entered; when pass 1 ends the marker of
\* every present node is true; when pass 2 ends every marker is false.
C14_Step ==
    /\ (pc = "pass1" /\ pc' = "pass1") =>
        /\ \A k \in DOMAIN flip : flip[k] => flip'[k]
        /\ (Len(stack') > Len(stack)) <=> (flip' # flip)
    /\ (pc = "pass1" /\ pc' = "pass2") =>
        /\ Present \subseteq DOMAIN flip
        /\ \A n \in Present : flip[n]
        /\ flip' = flip
    /\ (pc = "pass2" /\ pc' = "pass2") =>
        /\ \A k \in DOMAIN flip : ~flip[k] => ~flip'[k]
        /\ (Len(stack') > Len(stack)) <=> (flip' # flip)
    /\ (pc = "pass2" /\ pc' = "idle") =>
        \A k \in DOMAIN flip : ~flip[k]

\* C14: marker polarity flip. Each marker goes false -> true once in pass 1
\* and true -> false once in pass 2; all markers of present nodes are true at
\* the end of pass 1 and all are false at the end of pass 2; dfs1 and dfs2 are
\* each entered at most once per node.
C14_MarkerFlip == []C14_EnteredOnce /\ [][C14_Step]_vars

\* C14 witness: pass 2 is over on three nodes, two of them in one component,
\* and every marker is false again.
C14_Witness ==
    /\ pc = "pass2"
    /\ idx = 0
    /\ stack = <<>>
    /\ Len(finish) = 3
    /\ \E k \in 1..Len(components) : Len(components[k]) = 2
    /\ \A k \in DOMAIN flip : ~flip[k]

\* C15: every StrongComponents call that has started finishes both passes
\* and returns.
C15_Terminates == (pc = "pass1") ~> (pc = "idle")

\* C16: no neighbour set of a present node holds a removed node, and between
\* present nodes out and in hold exactly the edges linked and not since
\* unlinked or removed with an endpoint, also after a node is created again.
C16_NoResidualEdges ==
    /\ \A n \in removed : \A k \in Present : n \notin out[k] /\ n \notin in[k]
    /\ \A s, d \in Present :
        /\ d \in out[s] <=> <<s, d>> \in edges
        /\ s \in in[d] <=> <<s, d>> \in edges

\* C17, in every step: no step of a call, from its start to its return or
\* panic, changes out or in; and every call, also one that follows another
\* call, starts with all markers false and with empty order, finish order,
\* stack and components.
C17_Step ==
    /\ (pc \in {"pass1", "pass2"} \/ pc' \in {"pass1", "pass2"}) =>
        out' = out /\ in' = in
    /\ (pc = "idle" /\ pc' = "pass1") =>
        /\ DOMAIN flip' = 0..(Cardinality(DOMAIN out) - 1)
        /\ \A k \in DOMAIN flip' : ~flip'[k]
        /\ order' = <<>> /\ finish' = <<>> /\ stack' = <<>>
        /\ components' = <<>>

\* C17: StrongComponents is read-only on the graph and keeps no marker or
\* order state from one call to the next.
C17_ReadOnly == [][C17_Step]_vars

\* C17 witness: two calls have returned on a graph with at least two edges.
C17_Witness ==
    /\ pc = "idle"
    /\ Len(results) = 2
    /\ Cardinality(OutEdges) >= 2
====
